---- MODULE Spec2Model ----
(***************************************************************************)
(* A model of the anthropic-tokenizer HTTP service (src/src/index.ts,      *)
(* src/src/tokenizer.ts, src/src/types.ts).                                *)
(*                                                                         *)
(* Decoded JSON values are tagged records: the tag t carries the           *)
(* JavaScript type, the payload sits in a field of its own per tag so      *)
(* that values of different types never compare their payloads.  Objects   *)
(* keep their keys in insertion order, as JSON.parse and JSON.stringify    *)
(* do.  A thrown exception is the value Throw(..), which every operator    *)
(* that can raise returns in place of its result and every caller          *)
(* propagates, as the JavaScript call stack does up to the handler's       *)
(* catch clause.                                                           *)
(***************************************************************************)
EXTENDS Integers, Sequences, FiniteSets, TLC

VARIABLES
    env,        \* process.env.PORT: a string, or Undefined when unset
    listening,  \* the value app.listen was called with, Undefined before
    tokenizer,  \* how the external countTokens behaves in this process
    pc,         \* position of the (single-threaded) event loop in a handler
    route,      \* the route express matched for the request in progress
    req,        \* req.body of the request in progress
    i,          \* the validation loop's index
    parts,      \* countRequestTokens' local list of parts
    calls,      \* the tokenizer.ts functions called for the request in
                \* progress, in order, each with its argument
    res,        \* the response written for the request in progress
    served,     \* how many requests have been answered
    first       \* the first answered request: its route, body, response

vars == <<env, listening, tokenizer, pc, route, req, i, parts, calls, res,
          served, first>>

(***************************************************************************)
(* JavaScript values                                                       *)
(***************************************************************************)
Undefined == [t |-> "undefined"]
Null == [t |-> "null"]
NaN == [t |-> "NaN"]
Str(s) == [t |-> "string", s |-> s]
Num(n) == [t |-> "number", n |-> n]
Bool(b) == [t |-> "boolean", b |-> b]
Arr(a) == [t |-> "array", a |-> a]
Obj(kv) == [t |-> "object", kv |-> kv]

\* A thrown value: an Error instance with its message, or any other value.
Throw(isError, message) == [t |-> "throw", isError |-> isError, message |-> message]
IsThrow(v) == v.t = "throw"

\* ToBoolean, as `!x` and `if (x)` apply it.
Truthy(v) ==
    CASE v.t = "string" -> v.s # ""
      [] v.t = "number" -> v.n # 0
      [] v.t = "boolean" -> v.b
      [] v.t \in {"array", "object"} -> TRUE
      [] OTHER -> FALSE

\* typeof v === "string"
IsString(v) == v.t = "string"

\* Array.isArray(v)
IsArray(v) == v.t = "array"

\* Reading a property of undefined or null raises a TypeError.
Nullish(v) == v.t \in {"undefined", "null"}

CannotRead(v, key) ==
    Throw(TRUE, "Cannot read properties of " \o v.t \o " (reading '" \o key \o "')")

NotAFunction(expr) == Throw(TRUE, expr \o " is not a function")

HasKey(o, key) == o.t = "object" /\ \E k \in 1..Len(o.kv) : o.kv[k][1] = key

\* o.key for a non-nullish o: the own property of an object, undefined on
\* any other value (none of the keys read here is inherited).
Get(o, key) ==
    IF HasKey(o, key)
    THEN o.kv[CHOOSE k \in 1..Len(o.kv) : o.kv[k][1] = key][2]
    ELSE Undefined

Digit(d) == SubSeq("0123456789", d + 1, d + 1)

RECURSIVE NatToStr(_)
NatToStr(n) == IF n < 10 THEN Digit(n) ELSE NatToStr(n \div 10) \o Digit(n % 10)

IntToStr(n) == IF n < 0 THEN "-" \o NatToStr(-n) ELSE NatToStr(n)

\* JSToString, as template literals and string concatenation apply it.
RECURSIVE JSToString(_)
RECURSIVE JoinWith(_, _)
JSToString(v) ==
    CASE v.t = "undefined" -> "undefined"
      [] v.t = "null" -> "null"
      [] v.t = "NaN" -> "NaN"
      [] v.t = "string" -> v.s
      [] v.t = "number" -> IntToStr(v.n)
      [] v.t = "boolean" -> IF v.b THEN "true" ELSE "false"
      [] v.t = "array" -> JoinWith(v.a, ",")
      [] v.t = "object" -> "[object Object]"

\* Array.prototype.join: undefined and null elements give the empty string.
JoinWith(a, sep) ==
    IF a = << >> THEN ""
    ELSE LET h == IF Nullish(Head(a)) THEN "" ELSE JSToString(Head(a))
         IN  IF Len(a) = 1 THEN h ELSE h \o sep \o JoinWith(Tail(a), sep)

\* JSON.stringify of a string: quoted, with the characters JSON escapes.
RECURSIVE JsonEscape(_)
JsonEscape(s) ==
    IF s = "" THEN ""
    ELSE LET c == Head(s)
             e == CASE c = "\"" -> "\\\""
                    [] c = "\\" -> "\\\\"
                    [] c = "\n" -> "\\n"
                    [] OTHER -> c
         IN  e \o JsonEscape(Tail(s))

JsonQuote(s) == "\"" \o JsonEscape(s) \o "\""

\* JSON.stringify(v) without indentation: compact, object keys in
\* insertion order, undefined for undefined.
RECURSIVE JSONstringify(_)
RECURSIVE StringifyElements(_)
RECURSIVE StringifyMembers(_)
JSONstringify(v) ==
    CASE v.t = "undefined" -> Undefined
      [] v.t \in {"null", "NaN"} -> Str("null")
      [] v.t = "string" -> Str(JsonQuote(v.s))
      [] v.t = "number" -> Str(IntToStr(v.n))
      [] v.t = "boolean" -> Str(IF v.b THEN "true" ELSE "false")
      [] v.t = "array" -> Str("[" \o StringifyElements(v.a) \o "]")
      [] v.t = "object" -> Str("{" \o StringifyMembers(v.kv) \o "}")

StringifyElements(a) ==
    IF a = << >> THEN ""
    ELSE LET h == IF Head(a).t = "undefined" THEN "null" ELSE JSONstringify(Head(a)).s
         IN  IF Len(a) = 1 THEN h ELSE h \o "," \o StringifyElements(Tail(a))

StringifyMembers(kv) ==
    IF kv = << >> THEN ""
    ELSE LET rest == StringifyMembers(Tail(kv))
         IN  IF Head(kv)[2].t = "undefined" THEN rest
             ELSE JsonQuote(Head(kv)[1]) \o ":" \o JSONstringify(Head(kv)[2]).s
                  \o (IF rest = "" THEN "" ELSE "," \o rest)

(***************************************************************************)
(* src/src/tokenizer.ts                                                    *)
(***************************************************************************)

\* The first thrown value of a sequence of results, in evaluation order.
FirstThrow(results) ==
    results[CHOOSE k \in 1..Len(results) :
                /\ IsThrow(results[k])
                /\ \A j \in 1..(k - 1) : ~IsThrow(results[j])]

AnyThrow(results) == \E k \in 1..Len(results) : IsThrow(results[k])

\* A join of the flattened blocks with the default separator of join().
CommaSeparator == ","

\* The separator `.map(extractTextFromContentBlock).join(..)` is called with.
BlockSeparator == ""

RECURSIVE extractTextFromContentBlock(_)
RECURSIVE MapBlocksJoin(_, _)

\* v.map(extractTextFromContentBlock).join(""), `expr` being the source
\* text of v (it appears in the TypeError of a v that has no map).
MapBlocksJoin(v, expr) ==
    IF Nullish(v) THEN CannotRead(v, "map")
    ELSE IF ~IsArray(v) THEN NotAFunction(expr \o ".map")
    ELSE LET mapped == [k \in 1..Len(v.a) |-> extractTextFromContentBlock(v.a[k])]
         IN  IF AnyThrow(mapped) THEN FirstThrow(mapped)
             ELSE Str(JoinWith(mapped, BlockSeparator))

extractTextFromContentBlock(block) ==
    IF Nullish(block) THEN CannotRead(block, "type")
    ELSE LET type == Get(block, "type")
         IN  CASE type = Str("text") -> Get(block, "text")
               [] type = Str("tool_use") ->
                    Str(JSToString(Get(block, "name"))
                        \o JSToString(JSONstringify(Get(block, "input"))))
               [] type = Str("tool_result") ->
                    IF IsString(Get(block, "content")) THEN Get(block, "content")
                    ELSE MapBlocksJoin(Get(block, "content"), "block.content")
               [] type = Str("image") -> Str("[image]")
               [] type = Str("document") -> Str("[document]")
               [] OTHER -> Str("")

\* string + value, the value being a string or the result of a join.
Concat(prefix, v) == IF IsThrow(v) THEN v ELSE Str(prefix \o JSToString(v))

extractTextFromMessage(message) ==
    LET rolePrefix == JSToString(Get(message, "role")) \o ": "
    IN  IF IsString(Get(message, "content"))
        THEN Str(rolePrefix \o Get(message, "content").s)
        ELSE Concat(rolePrefix, MapBlocksJoin(Get(message, "content"), "message.content"))

extractTextFromSystem(system) ==
    IF ~Truthy(system) THEN Str("")
    ELSE IF IsString(system) THEN Str("system: " \o system.s)
    ELSE Concat("system: ", MapBlocksJoin(system, "system"))

\* The callback of tools.map in extractTextFromTools.
ToolText(tool) ==
    IF Nullish(tool) THEN CannotRead(tool, "name")
    ELSE LET t1 == "tool:" \o JSToString(Get(tool, "name"))
             t2 == IF Truthy(Get(tool, "description"))
                   THEN t1 \o ":" \o JSToString(Get(tool, "description"))
                   ELSE t1
         IN  IF Truthy(Get(tool, "input_schema"))
             THEN Str(t2 \o JSToString(JSONstringify(Get(tool, "input_schema"))))
             ELSE Str(t2)

\* tools.length
LengthOf(v) ==
    CASE v.t = "array" -> Num(Len(v.a))
      [] v.t = "string" -> Num(Len(v.s))
      [] OTHER -> Get(v, "length")

extractTextFromTools(tools) ==
    IF ~Truthy(tools) \/ LengthOf(tools) = Num(0) THEN Str("")
    ELSE IF ~IsArray(tools) THEN NotAFunction("tools.map")
    ELSE LET mapped == [k \in 1..Len(tools.a) |-> ToolText(tools.a[k])]
         IN  IF AnyThrow(mapped) THEN FirstThrow(mapped)
             ELSE Str(JoinWith(mapped, ""))

\* The external tokenizer (@anthropic-ai/tokenizer).  Its vocabulary is not
\* part of this repository: the count is abstracted to the length of the
\* text, and the ways the call can fail are fixed per process by `tokenizer`.
countTokens(text) ==
    CASE tokenizer = "ok" -> Num(Len(text))
      [] tokenizer = "throwsError" -> Throw(TRUE, "tokenizer failed")
      [] tokenizer = "throwsValue" -> Throw(FALSE, "")

\* parts declared once for the module instead of per call: the text of the
\* first request is still in it when a later request is counted.
LeftoverParts ==
    IF \E k \in 1..Len(first.calls) : first.calls[k].fn = "countTokens"
    THEN <<first.calls[CHOOSE k \in 1..Len(first.calls) :
                          first.calls[k].fn = "countTokens"].arg>>
    ELSE << >>

\* `const parts: string[] = []`
EmptyParts == << >>

\* parts.join(" ")
SpaceSeparator == " "

\* The separator of parts.join(..)
PartSeparator == "\n"

\* The state of countRequestTokens' body: the parts pushed so far and the
\* value thrown, if any (Undefined while none is).
Pushed(st, text) ==
    IF IsThrow(text) THEN [st EXCEPT !.thrown = text]
    ELSE [st EXCEPT !.parts = Append(@, text)]

PushedIfTruthy(st, text) ==
    IF IsThrow(text) THEN [st EXCEPT !.thrown = text]
    ELSE IF Truthy(text) THEN [st EXCEPT !.parts = Append(@, text)]
    ELSE st

RECURSIVE PushMessages(_, _)
PushMessages(st, messages) ==
    IF messages = << >> \/ st.thrown # Undefined THEN st
    ELSE PushMessages(Pushed(st, extractTextFromMessage(Head(messages))),
                      Tail(messages))

\* RequestParts with the model name serialized as a leading part.
RequestPartsWithModel(request) ==
    LET s0 == [parts |-> <<Str("model: " \o JSToString(Get(request, "model")))>>,
               thrown |-> Undefined]
        s1 == PushedIfTruthy(s0, extractTextFromSystem(Get(request, "system")))
        s2 == IF s1.thrown # Undefined THEN s1
              ELSE PushedIfTruthy(s1, extractTextFromTools(Get(request, "tools")))
    IN  PushMessages(s2, Get(request, "messages").a)

\* countRequestTokens up to the join: the parts list.
RequestParts(request) ==
    LET s0 == [parts |-> EmptyParts, thrown |-> Undefined]
        s1 == PushedIfTruthy(s0, extractTextFromSystem(Get(request, "system")))
        s2 == IF s1.thrown # Undefined THEN s1
              ELSE PushedIfTruthy(s1, extractTextFromTools(Get(request, "tools")))
    IN  PushMessages(s2, Get(request, "messages").a)

\* parts.join("\n")
FullText(ps) == JoinWith(ps, PartSeparator)

countRequestTokens(request) ==
    LET st == RequestParts(request)
    IN  IF st.thrown # Undefined THEN st.thrown
        ELSE countTokens(FullText(st.parts))

countTextTokens(text) == countTokens(text)

(***************************************************************************)
(* src/src/index.ts                                                        *)
(***************************************************************************)

IsDigitChar(c) == \E d \in 0..9 : Digit(d) = c

DigitValue(c) == CHOOSE d \in 0..9 : Digit(d) = c

RECURSIVE SkipWhitespace(_)
SkipWhitespace(s) ==
    IF s # "" /\ Head(s) = " " THEN SkipWhitespace(Tail(s)) ELSE s

\* The value of the longest prefix of decimal digits of s, given the value
\* acc of the `seen` digits before it; NaN when there is no digit at all.
RECURSIVE ParseDigits(_, _, _)
ParseDigits(s, acc, seen) ==
    IF s # "" /\ IsDigitChar(Head(s))
    THEN ParseDigits(Tail(s), 10 * acc + DigitValue(Head(s)), seen + 1)
    ELSE IF seen = 0 THEN NaN ELSE Num(acc)

Negated(v) == IF v = NaN THEN NaN ELSE Num(-v.n)

\* parseInt(s, 10): leading whitespace, an optional sign, then digits up to
\* the first character that is none.
parseInt(s) ==
    LET u == SkipWhitespace(s)
    IN  IF u # "" /\ Head(u) = "-" THEN Negated(ParseDigits(Tail(u), 0, 0))
        ELSE IF u # "" /\ Head(u) = "+" THEN ParseDigits(Tail(u), 0, 0)
        ELSE ParseDigits(u, 0, 0)

DefaultPort == 3000

\* const PORT = process.env.PORT ? parseInt(process.env.PORT, 10) : 3000
PORT == IF Truthy(env) THEN parseInt(env.s) ELSE Num(DefaultPort)

\* net.Server.listen binds only a port number in 0..65535.
Bound == listening.t = "number" /\ listening.n \in 0..65535

StatusOk == 200
StatusBadRequest == 400
StatusNotFound == 404
StatusInternalError == 500

NoResponse == [status |-> 0, body |-> Undefined]

\* res.status(status).json(body); res.json(body) sends status 200.
Respond(status, body) == [status |-> status, body |-> body]

ErrorResponse(type, message) ==
    Obj(<< <<"type", Str("error")>>,
           <<"error", Obj(<< <<"type", Str(type)>>, <<"message", Str(message)>> >>)>> >>)

InvalidRequest(message) ==
    Respond(StatusBadRequest, ErrorResponse("invalid_request_error", message))

\* A catch clause with the branches of its conditional swapped.
CatchResponseSwapped(err) ==
    Respond(StatusInternalError,
            ErrorResponse("api_error",
                          IF err.isError THEN "Unknown error" ELSE err.message))

\* The catch clause of both POST handlers.
CatchResponse(err) ==
    Respond(StatusInternalError,
            ErrorResponse("api_error",
                          IF err.isError THEN err.message ELSE "Unknown error"))

RouteHealth == "GET /health"
RouteMessages == "POST /v1/messages/count_tokens"
RouteText == "POST /v1/count_tokens"

\* Where express enters for a route: the handler registered for it, or the
\* final 404 middleware.
Entry(r) ==
    CASE r = RouteHealth -> "health"
      [] r = RouteMessages -> "model"
      [] r = RouteText -> "text"
      [] OTHER -> "notfound"

\* ["user", "assistant"].includes(role)
ValidRoles == {Str("user"), Str("assistant")}

NoRequest == [route |-> "none", body |-> Undefined, res |-> NoResponse, calls |-> << >>]

(***************************************************************************)
(* The requests the service is sent                                        *)
(***************************************************************************)
MaxDepth == 2       \* nesting depth of tool_result blocks
MaxMessages == 2    \* length of the messages array
MaxEnvLen == 3      \* length of the PORT environment string
MaxRequests == 2    \* requests answered in one run

\* Sequences over S of length at most n.
RECURSIVE SeqsUpTo(_, _)
SeqsUpTo(S, n) ==
    IF n = 0 THEN {<< >>}
    ELSE LET shorter == SeqsUpTo(S, n - 1)
         IN  shorter \cup {Append(q, x) : q \in shorter, x \in S}

\* Strings over the characters C of length at most n.
RECURSIVE StringsUpTo(_, _)
StringsUpTo(C, n) ==
    IF n = 0 THEN {""}
    ELSE LET shorter == StringsUpTo(C, n - 1)
         IN  shorter \cup {c \o u : c \in C, u \in shorter}

PortChars == {"8", "0", "a", "-", " "}
PortEnvs == {Undefined} \cup {Str(u) : u \in StringsUpTo(PortChars, MaxEnvLen)}

TextBlock(text) == Obj(<< <<"type", Str("text")>>, <<"text", Str(text)>> >>)

Source == Obj(<< <<"type", Str("base64")>>, <<"media_type", Str("image/png")>>,
                 <<"data", Str("AAAA")>> >>)
ImageBlock == Obj(<< <<"type", Str("image")>>, <<"source", Source>> >>)
DocumentBlock == Obj(<< <<"type", Str("document")>>, <<"source", Source>> >>)

WeatherInput ==
    Obj(<< <<"city", Str("Paris \"FR\"")>>, <<"days", Num(2)>>,
           <<"opts", Obj(<< <<"units", Arr(<<Str("C"), Null, Bool(TRUE)>>)>> >>)>> >>)

ToolUseBlock(name, input) ==
    Obj(<< <<"type", Str("tool_use")>>, <<"id", Str("toolu_1")>>,
           <<"name", Str(name)>>, <<"input", input>> >>)

ToolResultBlock(content) ==
    Obj(<< <<"type", Str("tool_result")>>, <<"tool_use_id", Str("toolu_1")>>,
           <<"content", content>> >>)

ThinkingBlock == Obj(<< <<"type", Str("thinking")>>, <<"thinking", Str("hm")>> >>)

LeafBlocks ==
    {TextBlock("a"), TextBlock("b"), TextBlock(""), ImageBlock, DocumentBlock,
     ToolUseBlock("get_weather", WeatherInput), ToolUseBlock("now", Obj(<< >>)),
     ToolResultBlock(Str("sunny")), ThinkingBlock}

\* The block sequences tried over a set S of blocks: none, one, and two
\* with a text block on either side.
BlockSeqs(S) ==
    {<< >>} \cup {<<b>> : b \in S}
            \cup {<<TextBlock("a"), b>> : b \in S} \cup {<<b, TextBlock("b")>> : b \in S}

RECURSIVE BlocksUpTo(_)
BlocksUpTo(d) ==
    IF d = 0 THEN LeafBlocks
    ELSE LET inner == BlocksUpTo(d - 1)
         IN  inner \cup {ToolResultBlock(Arr(q)) : q \in BlockSeqs(inner)}

Blocks == BlocksUpTo(MaxDepth)

Message(role, content) == Obj(<< <<"role", role>>, <<"content", content>> >>)

UserHello == Message(Str("user"), Str("Hello"))

\* Elements of messages the validation loop meets.
ValidationMessages ==
    {UserHello,
     Message(Str("assistant"), Arr(<<TextBlock("a")>>)),
     Message(Str("system"), Str("x")),
     Message(Null, Str("x")),
     Obj(<< <<"content", Str("x")>> >>),
     Obj(<< <<"role", Str("user")>> >>),
     Message(Str("user"), Null),
     Null}

\* Messages that pass validation; the last makes the flattening raise.
FlattenMessages ==
    {UserHello,
     Message(Str("assistant"), Arr(<<TextBlock("a"), TextBlock("b")>>)),
     Message(Str("user"), Str("")),
     Message(Str("user"), Num(5))}

Systems ==
    {Undefined, Null, Str(""), Str("Be brief"), Arr(<< >>), Arr(<<TextBlock("a")>>),
     Arr(<<TextBlock("a"), ToolResultBlock(Arr(<<TextBlock("b"), ImageBlock>>))>>),
     Num(5)}

Schema ==
    Obj(<< <<"type", Str("object")>>,
           <<"properties", Obj(<< <<"city", Obj(<< <<"type", Str("string")>> >>)>> >>)>>,
           <<"required", Arr(<<Str("city")>>)>> >>)

WeatherTool ==
    Obj(<< <<"name", Str("get_weather")>>, <<"description", Str("Weather")>>,
           <<"input_schema", Schema>> >>)
ClockTool == Obj(<< <<"name", Str("now")>>, <<"input_schema", Obj(<< <<"type", Str("object")>> >>)>> >>)

ToolLists ==
    {Undefined, Arr(<< >>), Arr(<<WeatherTool>>), Arr(<<ClockTool, WeatherTool>>),
     Arr(<<Obj(<< <<"name", Str("bare")>> >>)>>), Str("now"), Arr(<<Null>>)}

Models == {Str("claude-3-haiku"), Str("x")}
ToolChoices == {Obj(<< <<"type", Str("auto")>> >>)}

\* A body with only the keys that are present (undefined is no JSON value).
Body(kv) == Obj(SelectSeq(kv, LAMBDA p : p[2] # Undefined))

MessagesBody(model, messages, system, tools) ==
    Body(<< <<"model", model>>, <<"messages", messages>>, <<"system", system>>,
            <<"tools", tools>> >>)

ValidationBodies ==
    {MessagesBody(m, ms, Undefined, Undefined) :
        m \in {Undefined, Str(""), Str("claude-3-haiku")},
        ms \in {Undefined, Null, Str("Hello")}
               \cup {Arr(q) : q \in SeqsUpTo(ValidationMessages, MaxMessages)}}

FlattenBodies ==
    {MessagesBody(Str("claude-3-haiku"), Arr(q), sy, tl) :
        q \in SeqsUpTo(FlattenMessages, MaxMessages),
        sy \in Systems, tl \in {Undefined, Arr(<<WeatherTool>>)}}
    \cup
    {MessagesBody(Str("claude-3-haiku"), Arr(q), sy, tl) :
        q \in SeqsUpTo(FlattenMessages, MaxMessages),
        sy \in {Undefined, Str("Be brief")}, tl \in ToolLists}

BlockBodies ==
    {MessagesBody(Str("claude-3-haiku"), Arr(<<Message(Str("user"), Arr(q))>>),
                  Undefined, Undefined) : q \in BlockSeqs(Blocks)}
    \cup
    {MessagesBody(Str("claude-3-haiku"), Arr(<<UserHello>>), Arr(<<b>>), Undefined) :
        b \in Blocks}

Texts ==
    {Undefined, Null, Str(""), Str("Hello world"), Str("a\nb"), Num(0), Num(5),
     Bool(TRUE), Arr(<<Str("Hello")>>), Obj(<< >>)}

Request(r, body) == [route |-> r, body |-> body]

Requests ==
    {Request(RouteMessages, b) : b \in ValidationBodies \cup FlattenBodies \cup BlockBodies}
    \cup {Request(RouteText, Body(<< <<"text", x>> >>)) : x \in Texts}
    \cup {Request(RouteHealth, Undefined), Request("GET /nope", Undefined)}

\* body with key set to v: replaced in place, appended when absent.
Put(body, key, v) ==
    IF HasKey(body, key)
    THEN Obj([k \in 1..Len(body.kv) |->
                 IF body.kv[k][1] = key THEN <<key, v>> ELSE body.kv[k]])
    ELSE Obj(Append(body.kv, <<key, v>>))

\* The requests sent after the first one: the same again, the same with
\* another model or a tool_choice, and an unrelated one.
FollowUps(f) ==
    {Request(f.route, f.body), Request(RouteMessages, MessagesBody(Str("x"), Arr(<<UserHello>>), Str("Be brief"), Undefined))}
    \cup (IF f.route = RouteMessages
          THEN {Request(f.route, Put(f.body, "model", m)) : m \in Models}
               \cup {Request(f.route, Put(f.body, "tool_choice", c)) : c \in ToolChoices}
          ELSE {})

(***************************************************************************)
(* The state machine.  Node runs one handler at a time to completion, so   *)
(* one request is in progress at any moment; the steps of a handler are    *)
(* its statements in program order.                                        *)
(***************************************************************************)
Tokenizers == {"ok", "throwsError", "throwsValue"}

Idle ==
    /\ route = "none"
    /\ req = Undefined
    /\ i = 0
    /\ parts = << >>
    /\ calls = << >>
    /\ res = NoResponse

InitWith(envs) ==
    /\ env \in envs
    /\ listening = Undefined
    /\ tokenizer \in Tokenizers
    /\ pc = "boot"
    /\ Idle
    /\ served = 0
    /\ first = NoRequest

\* The service started without PORT in its environment; the handlers never
\* read the port, and SpecBoot covers start-up over every PORT value.
Init == InitWith({Undefined})

InitBoot == InitWith(PortEnvs)

\* app.listen(PORT, ..)
Listen ==
    /\ pc = "boot"
    /\ listening' = PORT
    /\ pc' = "idle"
    /\ UNCHANGED <<env, tokenizer, route, req, i, parts, calls, res, served, first>>

\* express hands a request's decoded body to the handler of its route.
Receive ==
    /\ pc = "idle"
    /\ Bound
    /\ served < MaxRequests
    /\ \E r \in IF served = 0 THEN Requests ELSE FollowUps(first) :
          /\ route' = r.route
          /\ req' = r.body
          /\ pc' = Entry(r.route)
    /\ UNCHANGED <<env, listening, tokenizer, i, parts, calls, res, served, first>>

\* app.get("/health", ..)
Health ==
    /\ pc = "health"
    /\ res' = Respond(StatusOk, Obj(<< <<"status", Str("ok")>> >>))
    /\ pc' = "done"
    /\ UNCHANGED <<env, listening, tokenizer, route, req, i, parts, calls, served, first>>

\* The 404 middleware.
NotFound ==
    /\ pc = "notfound"
    /\ res' = Respond(StatusNotFound,
                      ErrorResponse("not_found_error", "The requested endpoint does not exist"))
    /\ pc' = "done"
    /\ UNCHANGED <<env, listening, tokenizer, route, req, i, parts, calls, served, first>>

\* if (!body.model) ..
CheckModel ==
    /\ pc = "model"
    /\ IF ~Truthy(Get(req, "model"))
       THEN res' = InvalidRequest("model: Field required") /\ pc' = "done"
       ELSE res' = res /\ pc' = "messages"
    /\ UNCHANGED <<env, listening, tokenizer, route, req, i, parts, calls, served, first>>

\* if (!body.messages || !Array.isArray(body.messages)) ..
CheckMessages ==
    /\ pc = "messages"
    /\ IF ~Truthy(Get(req, "messages")) \/ ~IsArray(Get(req, "messages"))
       THEN res' = InvalidRequest("messages: Field required") /\ pc' = "done"
       ELSE res' = res /\ pc' = "loop"
    /\ i' = 0
    /\ UNCHANGED <<env, listening, tokenizer, route, req, parts, calls, served, first>>

\* The response of one iteration of the validation loop on msg at index k,
\* NoResponse when msg passes.
MessageCheck(msg, k) ==
    IF Nullish(msg) THEN CatchResponse(CannotRead(msg, "role"))
    ELSE IF ~Truthy(Get(msg, "role")) \/ Get(msg, "role") \notin ValidRoles
    THEN InvalidRequest("messages." \o IntToStr(k) \o ".role: Invalid role \""
                        \o JSToString(Get(msg, "role")) \o "\"")
    ELSE IF Get(msg, "content") = Undefined \/ Get(msg, "content") = Null
    THEN InvalidRequest("messages." \o IntToStr(k) \o ".content: Field required")
    ELSE NoResponse

\* for (let i = 0; i < body.messages.length; i++) ..: one test of the loop
\* condition and, when it holds, one iteration.
CheckMessage ==
    /\ pc = "loop"
    /\ LET messages == Get(req, "messages").a
       IN  IF i < Len(messages)
           THEN LET r == MessageCheck(messages[i + 1], i)
                IN  IF r = NoResponse
                    THEN i' = i + 1 /\ res' = res /\ pc' = "loop"
                    ELSE i' = i /\ res' = r /\ pc' = "done"
           ELSE i' = i /\ res' = res /\ pc' = "count"
    /\ UNCHANGED <<env, listening, tokenizer, route, req, parts, calls, served, first>>

Call(fn, arg) == [fn |-> fn, arg |-> arg]

\* const inputTokens = countRequestTokens(body); res.json({input_tokens})
CountRequest ==
    /\ pc = "count"
    /\ LET st == RequestParts(req)
           inputTokens == countRequestTokens(req)
       IN  /\ parts' = st.parts
           /\ calls' = IF st.thrown # Undefined
                       THEN <<Call("countRequestTokens", req)>>
                       ELSE <<Call("countRequestTokens", req),
                              Call("countTokens", Str(FullText(st.parts)))>>
           /\ res' = IF IsThrow(inputTokens) THEN CatchResponse(inputTokens)
                     ELSE Respond(StatusOk, Obj(<< <<"input_tokens", inputTokens>> >>))
    /\ pc' = "done"
    /\ UNCHANGED <<env, listening, tokenizer, route, req, i, served, first>>

\* TextCheck without its `!text` operand.
TextCheckTypeOnly(text) ==
    IF ~IsString(text)
    THEN InvalidRequest("text: Field required and must be a string")
    ELSE NoResponse

\* if (!text || typeof text !== "string") ..
TextCheck(text) ==
    IF ~Truthy(text) \/ ~IsString(text)
    THEN InvalidRequest("text: Field required and must be a string")
    ELSE NoResponse

\* The handler of POST /v1/count_tokens.
CountText ==
    /\ pc = "text"
    /\ LET text == Get(req, "text")
       IN  IF TextCheck(text) # NoResponse
           THEN res' = TextCheck(text) /\ calls' = calls
           ELSE /\ calls' = <<Call("countTextTokens", text), Call("countTokens", text)>>
                /\ res' = IF IsThrow(countTextTokens(text.s))
                          THEN CatchResponse(countTextTokens(text.s))
                          ELSE Respond(StatusOk,
                                       Obj(<< <<"token_count", countTextTokens(text.s)>> >>))
    /\ pc' = "done"
    /\ UNCHANGED <<env, listening, tokenizer, route, req, i, parts, served, first>>

\* The response is on the wire; the handler's locals are gone.
Finish ==
    /\ pc = "done"
    /\ served' = served + 1
    /\ first' = IF served = 0
                THEN [route |-> route, body |-> req, res |-> res, calls |-> calls]
                ELSE first
    /\ pc' = "idle"
    /\ route' = "none"
    /\ req' = Undefined
    /\ i' = 0
    /\ parts' = << >>
    /\ calls' = << >>
    /\ res' = NoResponse
    /\ UNCHANGED <<env, listening, tokenizer>>

Next ==
    \/ Listen
    \/ Receive
    \/ Health
    \/ NotFound
    \/ CheckModel
    \/ CheckMessages
    \/ CheckMessage
    \/ CountRequest
    \/ CountText
    \/ Finish

Spec == Init /\ [][Next]_vars

\* Start-up alone, over every value of the PORT environment string.
SpecBoot == InitBoot /\ [][Listen]_vars

(***************************************************************************)
(* Properties                                                              *)
(***************************************************************************)
ErrorType(r) == Get(Get(r.body, "error"), "type")
ErrorMessage(r) == Get(Get(r.body, "error"), "message")

Answered == pc = "done"

\* The texts handed to the external countTokens for the request in progress.
TokenizerCalls(cs) == SelectSeq(cs, LAMBDA c : c.fn = "countTokens")

StartsWith(u, prefix) ==
    Len(u) >= Len(prefix) /\ SubSeq(u, 1, Len(prefix)) = prefix

\* The role and content of a messages element as the specification reads
\* them: absent on anything that is no object.
RoleOf(msg) == IF msg.t = "object" THEN Get(msg, "role") ELSE Undefined
ContentOf(msg) == IF msg.t = "object" THEN Get(msg, "content") ELSE Undefined

RoleFails(msg) == RoleOf(msg) \notin {Str("user"), Str("assistant")}
ContentFails(msg) == ContentOf(msg) \in {Undefined, Null}
MessageFails(msg) == RoleFails(msg) \/ ContentFails(msg)

\* The index (from 0) of the first element of ms that fails, Len(ms) if none.
FirstOffender(ms) ==
    IF \E k \in 1..Len(ms) : MessageFails(ms[k])
    THEN (CHOOSE k \in 1..Len(ms) :
             MessageFails(ms[k]) /\ \A j \in 1..(k - 1) : ~MessageFails(ms[j])) - 1
    ELSE Len(ms)

\* The message of the first failing check in the order model, messages,
\* then per message role before content; "" when every check passes.
FirstFailure(body) ==
    LET ms == Get(body, "messages")
    IN  IF ~Truthy(Get(body, "model")) THEN "model: Field required"
        ELSE IF ~IsArray(ms) THEN "messages: Field required"
        ELSE LET k == FirstOffender(ms.a)
             IN  IF k = Len(ms.a) THEN ""
                 ELSE IF RoleFails(ms.a[k + 1])
                 THEN "messages." \o IntToStr(k) \o ".role: Invalid role \""
                      \o JSToString(RoleOf(ms.a[k + 1])) \o "\""
                 ELSE "messages." \o IntToStr(k) \o ".content: Field required"

\* C1: on POST /v1/messages/count_tokens the checks run in the order model,
\* messages, then each message's role and content by ascending index; the
\* response reports the first failing check with its exact message (an
\* absent role reads "undefined"), and the loop has not gone past the first
\* offending message.
C1_FirstFailureReported ==
    (Answered /\ route = RouteMessages) =>
        IF FirstFailure(req) = "" THEN res.status # StatusBadRequest
        ELSE /\ res = InvalidRequest(FirstFailure(req))
             /\ (Truthy(Get(req, "model")) /\ IsArray(Get(req, "messages")))
                    => i = FirstOffender(Get(req, "messages").a)

\* What C1 states, on the requests whose messages elements are all objects.
C1_ObjectElementsOnly ==
    (Answered /\ route = RouteMessages
        /\ (IsArray(Get(req, "messages")) =>
               \A k \in 1..Len(Get(req, "messages").a) : Get(req, "messages").a[k] # Null))
    => C1_FirstFailureReported

\* Whether a body fails a validation check of its endpoint.
FailsValidation(r, body) ==
    CASE r = RouteMessages -> FirstFailure(body) # ""
      [] r = RouteText -> ~IsString(Get(body, "text"))
      [] OTHER -> FALSE

\* C2: a request to either POST endpoint that fails a validation check is
\* answered 400 invalid_request_error without countRequestTokens,
\* countTextTokens or countTokens being called, and countTokens is called
\* only for a request that passed every check.
C2_InvalidNeverCounted ==
    (Answered /\ FailsValidation(route, req)) =>
        /\ res.status = StatusBadRequest
        /\ ErrorType(res) = Str("invalid_request_error")
        /\ calls = << >>

\* C3: POST /v1/count_tokens answers 400 "text: Field required and must be a
\* string" exactly when text is absent or not a string; every string text,
\* of any length, is handed to countTokens as it is and answered 200 with
\* its count.
C3_EveryStringCounted ==
    (Answered /\ route = RouteText) =>
        LET text == Get(req, "text")
        IN  IF ~IsString(text)
            THEN res = InvalidRequest("text: Field required and must be a string")
            ELSE /\ res.status # StatusBadRequest
                 /\ TokenizerCalls(calls) = <<Call("countTokens", text)>>
                 /\ tokenizer = "ok" =>
                      res = Respond(StatusOk, Obj(<< <<"token_count", countTokens(text.s)>> >>))


\* C3 as amended: POST /v1/count_tokens answers 400 "text: Field required
\* and must be a string" exactly when text is absent, not a string or the
\* empty string; every non-empty string text is handed to countTokens as it
\* is and answered 200 with the count countTokens returns.
C3_NonEmptyStringCounted ==
    (Answered /\ route = RouteText) =>
        LET text == Get(req, "text")
        IN  IF ~IsString(text) \/ text = Str("")
            THEN /\ res = InvalidRequest("text: Field required and must be a string")
                 /\ calls = << >>
            ELSE /\ res.status # StatusBadRequest
                 /\ TokenizerCalls(calls) = <<Call("countTokens", text)>>
                 /\ tokenizer = "ok" =>
                      res = Respond(StatusOk, Obj(<< <<"token_count", countTokens(text.s)>> >>))

\* A text of eleven characters has been counted and answered 200.
C3_Witness ==
    /\ Answered /\ route = RouteText
    /\ Get(req, "text") = Str("Hello world")
    /\ res = Respond(StatusOk, Obj(<< <<"token_count", Num(11)>> >>))

\* Separator-free concatenation of the strings of a sequence.
RECURSIVE Concatenation(_)
Concatenation(q) == IF q = << >> THEN "" ELSE Head(q) \o Concatenation(Tail(q))

\* Newline-join of the strings of a sequence.
RECURSIVE NewlineJoin(_)
NewlineJoin(q) ==
    IF q = << >> THEN ""
    ELSE IF Len(q) = 1 THEN Head(q)
    ELSE Head(q) \o "\n" \o NewlineJoin(Tail(q))

\* The part of a message: "<role>: " and its string content, or its blocks
\* flattened and concatenated.
MessagePart(msg) ==
    LET content == Get(msg, "content")
    IN  Get(msg, "role").s \o ": " \o
        (IF IsString(content) THEN content.s
         ELSE Concatenation([k \in 1..Len(content.a) |->
                                extractTextFromContentBlock(content.a[k]).s]))

\* The parts list of a request: the system part and the tools part when
\* non-empty, then one part per message.
ExpectedParts(body) ==
    LET sy == extractTextFromSystem(Get(body, "system")).s
        tl == extractTextFromTools(Get(body, "tools")).s
        ms == Get(body, "messages").a
    IN  (IF sy # "" THEN <<sy>> ELSE << >>) \o (IF tl # "" THEN <<tl>> ELSE << >>)
        \o [k \in 1..Len(ms) |-> MessagePart(ms[k])]

PartCount(body) ==
    (IF extractTextFromSystem(Get(body, "system")) # Str("") THEN 1 ELSE 0)
    + (IF extractTextFromTools(Get(body, "tools")) # Str("") THEN 1 ELSE 0)
    + Len(Get(body, "messages").a)

\* countTokens has been called for a structured request.
Flattened ==
    Answered /\ route = RouteMessages /\ TokenizerCalls(calls) # << >>

\* C4: for a validated structured request the text handed to countTokens is
\* the newline-join of the parts list (system part if non-empty, tools part
\* if non-empty, one part per message in order, each "<role>: " and the
\* content), the number of parts is [system] + [tools] + length(messages),
\* and input_tokens is countTokens of that text; one user message "Hello"
\* gives exactly "user: Hello".
C4_TextIsNewlineJoinOfParts ==
    Flattened =>
        LET expected == ExpectedParts(req)
            text == NewlineJoin(expected)
        IN  /\ [k \in 1..Len(parts) |-> parts[k].s] = expected
            /\ Len(parts) = PartCount(req)
            /\ TokenizerCalls(calls) = <<Call("countTokens", Str(text))>>
            /\ res.status = StatusOk =>
                  res.body = Obj(<< <<"input_tokens", countTokens(text)>> >>)
            /\ (Get(req, "messages") = Arr(<<UserHello>>)
                    /\ ~HasKey(req, "system") /\ ~HasKey(req, "tools"))
                  => text = "user: Hello"

\* A request with a system part, a tools part and two messages is counted.
C4_Witness ==
    /\ Flattened
    /\ res.status = StatusOk
    /\ Len(parts) = 4
    /\ StartsWith(parts[1].s, "system: ")
    /\ StartsWith(parts[2].s, "tool:")
    /\ calls[2].arg.s = "system: Be brief\n" \o parts[2].s \o "\nuser: Hello\nuser: "


\* The flattening table of the specification.
RECURSIVE TableFlatten(_)
TableFlatten(block) ==
    LET type == Get(block, "type")
    IN  CASE type = Str("text") -> Get(block, "text").s
          [] type = Str("tool_use") ->
               Get(block, "name").s \o JSONstringify(Get(block, "input")).s
          [] type = Str("tool_result") ->
               IF IsString(Get(block, "content")) THEN Get(block, "content").s
               ELSE Concatenation([k \in 1..Len(Get(block, "content").a) |->
                                      TableFlatten(Get(block, "content").a[k])])
          [] type = Str("image") -> "[image]"
          [] type = Str("document") -> "[document]"
          [] OTHER -> ""

TableConcatenation(blocks) ==
    Concatenation([k \in 1..Len(blocks) |-> TableFlatten(blocks[k])])

HasSystemPart == parts # << >> /\ StartsWith(parts[1].s, "system: ")

\* C5: an absent or empty system (none, the empty string, an empty sequence
\* of blocks) contributes no part and no "system: " prefix; a non-empty
\* string s contributes "system: " + s; a sequence of blocks contributes
\* "system: " and the concatenation of its flattened blocks.
C5_SystemContribution ==
    Flattened =>
        LET system == Get(req, "system")
        IN  IF system \in {Undefined, Null, Str(""), Arr(<< >>)}
            THEN ~HasSystemPart
            ELSE IF IsString(system) THEN parts[1] = Str("system: " \o system.s)
            ELSE parts[1] = Str("system: " \o TableConcatenation(system.a))

\* What C5 states, on the requests whose system is not an empty sequence.
C5_ExceptEmptySequence ==
    (Flattened /\ Get(req, "system") # Arr(<< >>)) => C5_SystemContribution

\* C6: two requests with equal bodies are answered alike whatever was
\* handled before: the same text is handed to countTokens and, the
\* tokenizer being deterministic, the same status and count come back.
C6_EqualBodiesEqualResponses ==
    (Answered /\ served >= 1 /\ route = first.route /\ req = first.body) =>
        /\ res = first.res
        /\ calls = first.calls

\* The first request, a structured one with a system part, is sent again
\* and counted again.
C6_Witness ==
    /\ Answered /\ served >= 1 /\ route = first.route /\ req = first.body
    /\ Flattened
    /\ res.status = StatusOk
    /\ HasSystemPart /\ Len(parts) >= 2

\* The value countRequestTokens or countTextTokens returns or throws for
\* the request in progress.
Outcome ==
    IF route = RouteMessages THEN countRequestTokens(req)
    ELSE countTextTokens(Get(req, "text").s)

\* C7: an exception raised after validation has passed, while flattening
\* or inside countTokens, is answered 500 api_error with the failure's
\* message ("Unknown error" when the thrown value is no Error); countTokens
\* is called at most once and no 200 is sent.
C7_ExceptionsAnswered500 ==
    (Answered /\ calls # << >>) =>
        /\ Len(TokenizerCalls(calls)) <= 1
        /\ IsThrow(Outcome) =>
              /\ res.status = StatusInternalError
              /\ ErrorType(res) = Str("api_error")
              /\ ErrorMessage(res) =
                    Str(IF Outcome.isError THEN Outcome.message ELSE "Unknown error")
        /\ res.status = StatusOk => ~IsThrow(Outcome)

\* The tokenizer raised an Error on the text of a structured request.
C7_Witness ==
    /\ Flattened
    /\ res.status = StatusInternalError
    /\ ErrorMessage(res) = Str("tokenizer failed")

\* A body without its model and tool_choice.
WithoutModel(body) ==
    Obj(SelectSeq(body.kv, LAMBDA p : p[1] \notin {"model", "tool_choice"}))

\* C8: two requests that pass validation and differ only in model or
\* tool_choice hand the same text to countTokens and get the same response.
C8_ModelDoesNotCount ==
    (/\ Answered /\ served >= 1
     /\ route = RouteMessages /\ first.route = RouteMessages
     /\ calls # << >> /\ first.calls # << >>
     /\ WithoutModel(req) = WithoutModel(first.body)) =>
        /\ TokenizerCalls(calls) = TokenizerCalls(first.calls)
        /\ res = first.res

\* The first request is sent again under another model name and counted.
C8_Witness ==
    /\ Answered /\ served >= 1
    /\ route = RouteMessages /\ first.route = RouteMessages
    /\ WithoutModel(req) = WithoutModel(first.body)
    /\ Get(req, "model") # Get(first.body, "model")
    /\ Flattened /\ res.status = StatusOk /\ first.res.status = StatusOk

\* C9: every content block flattens as the table says, at any nesting
\* depth: the part of each message with block content is its role prefix
\* and the table's flattening of its blocks, concatenated without
\* separator; a tool_result of the text blocks "a", "b" gives "ab".
C9_BlocksFlattenByTable ==
    Flattened =>
        LET ms == Get(req, "messages").a
            offset == Len(parts) - Len(ms)
        IN  /\ \A k \in 1..Len(ms) :
                  IsArray(Get(ms[k], "content")) =>
                     parts[offset + k].s =
                        Get(ms[k], "role").s \o ": "
                            \o TableConcatenation(Get(ms[k], "content").a)
            /\ (HasSystemPart /\ IsArray(Get(req, "system"))) =>
                  parts[1].s = "system: " \o TableConcatenation(Get(req, "system").a)
            /\ (Len(ms) = 1 /\ Get(ms[1], "content") =
                    Arr(<<ToolResultBlock(Arr(<<TextBlock("a"), TextBlock("b")>>))>>))
                  => parts[Len(parts)].s = "user: ab"

\* A tool_result nested in a tool_result has been flattened.
C9_Witness ==
    /\ Flattened
    /\ Get(req, "messages") =
          Arr(<<Message(Str("user"),
                        Arr(<<ToolResultBlock(Arr(<<TextBlock("a"),
                                 ToolResultBlock(Arr(<<TextBlock("a"), TextBlock("b")>>))>>))>>))>>)
    /\ parts = <<Str("user: aab")>>

\* A string of decimal digits only.
RECURSIVE AllDigits(_)
AllDigits(u) == u = "" \/ (IsDigitChar(Head(u)) /\ AllDigits(Tail(u)))

Numeric(v) == v.t = "string" /\ v.s # "" /\ AllDigits(v.s)

RECURSIVE DecimalValue(_, _)
DecimalValue(u, acc) ==
    IF u = "" THEN acc ELSE DecimalValue(Tail(u), 10 * acc + DigitValue(Head(u)))

\* C10: the port handed to listen is the value of PORT when PORT is
\* numeric and 3000 when PORT is absent or not numeric; it is always an
\* integer.
C10_PortNumericOrDefault ==
    pc # "boot" =>
        /\ listening.t = "number"
        /\ listening = IF Numeric(env) THEN Num(DecimalValue(env.s, 0)) ELSE Num(3000)

\* What C10 states, on the values of PORT that are absent, empty or numeric.
C10_AbsentOrNumeric ==
    (pc # "boot" /\ (~Truthy(env) \/ Numeric(env))) => C10_PortNumericOrDefault

====
